---- MODULE Spec2Model ----
(***************************************************************************)
(* Model of cherrypicks/check_picks.py: one run of main() loads the PR     *)
(* corpus, infers cherry-pick relationships from title/body text           *)
(* (index_cherrypicks), reconciles one target branch (tabulate_branch) and *)
(* assembles the report (render_table).                                    *)
(*                                                                         *)
(* Encoding of Python values.  A numeric field (pick, to_master) is an     *)
(* integer: a PR number (> 0), 0, or one of the markers None, NoKey (the   *)
(* dict has no such key) and EmptyStr (the "" default of dict.get).  The   *)
(* string field "from" is a branch name, "unknown", "N/A", or one of the   *)
(* markers NoneStr and NoKeyStr.  Text is a single line, a sequence of     *)
(* tokens [t, n]; the tokens are the words the regular expressions of      *)
(* index_cherrypicks look at.                                              *)
(***************************************************************************)
EXTENDS Integers, Sequences, FiniteSets, TLC

\* check_picks.py: the corpus, the --branch flag, the position in main(), the
\* keys of tabulate_branch's table, render_table's result, and what an earlier
\* pass over the same corpus left (first).
VARIABLES prs, branch, pc, table, report, first

\* commitdb.py: the git log being walked and the position in it, the --limit
\* flag and build_db's countdown of it, the tables commits, prs and
\* commits_desc of the database, the commits the current build_db passed to
\* get_commit, the commits table as the current build_db found it, the number
\* of build_db calls so far, and the progress of the current one.
VARIABLES gitlog, pos, flagLimit, limit, dbCommits, dbPrs, dbDesc, queries, known, run, dpc

\* verilator/tracer.py and mapfile/mapfile.py: Mapfile.symbols, the address
\* looked up, and what Mapfile.address gave.
VARIABLES symbols, address, result

picksvars == <<prs, branch, pc, table, report, first>>

dbvars == <<gitlog, pos, flagLimit, limit, dbCommits, dbPrs, dbDesc, queries, known, run, dpc>>

mapvars == <<symbols, address, result>>

vars == <<picksvars, dbvars, mapvars>>

\* ------------------------------------------------------------------ bounds
MaxPRs == 4
MaxTitleLen == 3
MaxBodyLen == 3
MaxCommits == 3
MaxLimit == 2
MaxRuns == 2
MaxSyms == 3
MaxAddr == 3
MaxSize == 2

\* ------------------------------------------------------- Python value markers
None == -1
NoKey == -2
EmptyStr == -3
NoneStr == "<None>"
NoKeyStr == "<nokey>"

\* Python truthiness of a numeric-or-marker value: None, "" and 0 are falsy.
Truthy(x) == x > 0

\* ------------------------------------------------------------------- MANUAL
\* The override table.  An entry lists the keys it has and their values.
ManualEntry(has, pick, from, to_master, notes) ==
    [has |-> has, pick |-> pick, from |-> from, to_master |-> to_master, notes |-> notes]

MANUAL ==
    (24834 :> ManualEntry({"pick", "from"}, 24345, "master", NoKey, "")) @@
    (24872 :> ManualEntry({"to_master"}, NoKey, NoKeyStr, 24838, "")) @@
    (24939 :> ManualEntry({"to_master"}, NoKey, NoKeyStr, 25888, "")) @@
    (24976 :> ManualEntry({"to_master"}, NoKey, NoKeyStr, 25991, "")) @@
    (24977 :> ManualEntry({"to_master"}, NoKey, NoKeyStr, 25997, "")) @@
    (24984 :> ManualEntry({"from"}, NoKey, "master", NoKey, "")) @@
    (25018 :> ManualEntry({"from"}, NoKey, "N/A", NoKey, "")) @@
    (25020 :> ManualEntry({"from"}, NoKey, "N/A", NoKey, "")) @@
    (25036 :> ManualEntry({"from"}, NoKey, "N/A", NoKey, "")) @@
    (25126 :> ManualEntry({"pick", "from"}, 25119, "master", NoKey, "")) @@
    (25195 :> ManualEntry({"notes"}, NoKey, NoKeyStr, NoKey, "Investigate")) @@
    (25273 :> ManualEntry({"pick", "from"}, 25268, "master", NoKey, "")) @@
    (25275 :> ManualEntry({"from"}, NoKey, "N/A", NoKey, ""))

\* ------------------------------------------------------------ input universe
\* PR numbers a corpus may hold: one per kind of override entry (pick+from,
\* to_master, from N/A, notes) and one without an entry.
PRIds == {24834, 24838, 24872, 25018, 25195}

\* PR numbers the palette texts refer to.
RefIds == {24838, 25195}

Branches == {"master", "dev", "release"}

\* Values of the --branch flag.
TargetBranches == {"release"}

\* ------------------------------------------------------------------- text
Tok(t, n) == [t |-> t, n |-> n]

CP == Tok("cherry-pick", 0)
OF == Tok("of", 0)
FROM == Tok("from", 0)
BP == Tok("backport", 0)
Hash(n) == Tok("#", n)
Url(n) == Tok("https-pull/", n)

IsRef(tok) == tok.t \in {"#", "https-pull/"}

\* Index of the last https...pull/N token of s at or after j: `https.*pull/`
\* is greedy and the text is one line.
LastUrl(s, j) ==
    CHOOSE i \in j..Len(s) :
        /\ s[i].t = "https-pull/"
        /\ \A h \in (i + 1)..Len(s) : s[h].t # "https-pull/"

\* group(1) of a match whose reference token is at position j.
Group1(s, j) == IF s[j].t = "#" THEN s[j].n ELSE s[LastUrl(s, j)].n

\* Leftmost position of a set of match positions.
Leftmost(S) == CHOOSE i \in S : \A j \in S : i <= j

\* pick = cherry[ -]?pick (?:of |from )(?:#|https.*pull/)(\d+)
PickMatches(s) ==
    { i \in 1..(Len(s) - 2) :
        /\ s[i] = CP
        /\ s[i + 1] \in {OF, FROM}
        /\ IsRef(s[i + 2]) }

PickSearch(s) ==
    IF PickMatches(s) = {} THEN None ELSE Group1(s, Leftmost(PickMatches(s)) + 2)

\* backport = backport(?: of)? (?:#|https.*pull/)(\d+)
BackportRefPos(s, i) ==
    IF i + 1 <= Len(s) /\ IsRef(s[i + 1]) THEN i + 1
    ELSE IF i + 2 <= Len(s) /\ s[i + 1] = OF /\ IsRef(s[i + 2]) THEN i + 2
    ELSE 0

BackportMatches(s) ==
    { i \in 1..Len(s) : s[i] = BP /\ BackportRefPos(s, i) # 0 }

BackportSearch(s) ==
    IF BackportMatches(s) = {} THEN None
    ELSE Group1(s, BackportRefPos(s, Leftmost(BackportMatches(s))))

\* cp = cherry[ -]?pick
CpSearch(s) == \E i \in 1..Len(s) : s[i] = CP

\* Mutant of InferPick: the two backport rules tried in the other order.
InferPick_BodyBackportFirst(data) ==
    IF PickSearch(data.body) # None THEN PickSearch(data.body)
    ELSE IF PickSearch(data.title) # None THEN PickSearch(data.title)
    ELSE IF BackportSearch(data.body) # None THEN BackportSearch(data.body)
    ELSE IF BackportSearch(data.title) # None THEN BackportSearch(data.title)
    ELSE IF CpSearch(data.body) THEN 0
    ELSE None

\* The if/elif chain of index_cherrypicks for one record.  A search result of
\* None is "no match"; a match object is truthy whatever number it captured.
InferPick(data) ==
    IF PickSearch(data.body) # None THEN PickSearch(data.body)
    ELSE IF PickSearch(data.title) # None THEN PickSearch(data.title)
    ELSE IF BackportSearch(data.title) # None THEN BackportSearch(data.title)
    ELSE IF BackportSearch(data.body) # None THEN BackportSearch(data.body)
    ELSE IF CpSearch(data.body) THEN 0
    ELSE None

index_cherrypicks(corpus) ==
    [k \in DOMAIN corpus |-> [corpus[k] EXCEPT !.pick = InferPick(corpus[k])]]

\* ------------------------------------------------------------- reconciliation
\* on_branch: the record based on b whose pick is x, when there is exactly one.
OnBranchTable(corpus, x, b) ==
    { k \in DOMAIN corpus : corpus[k].baseRefName = b /\ corpus[k].pick = x }

\* Mutant of on_branch: any candidate is returned when there are several.
on_branch_AnyCandidate(corpus, x, b) ==
    IF OnBranchTable(corpus, x, b) # {}
    THEN corpus[CHOOSE k \in OnBranchTable(corpus, x, b) : TRUE].number
    ELSE None

on_branch(corpus, x, b) ==
    IF Cardinality(OnBranchTable(corpus, x, b)) = 1
    THEN corpus[CHOOSE k \in OnBranchTable(corpus, x, b) : TRUE].number
    ELSE None

\* Mutant of TabulateKnownSource: the source's own from, when it has one, is
\* taken for its base branch.
TabulateKnownSource_FollowsSource(corpus, k, v) ==
    LET src == corpus[v.pick]
        v1 == [v EXCEPT !.from = IF src.from \in {NoKeyStr, NoneStr}
                                 THEN src.baseRefName ELSE src.from]
    IN  IF v1.from # "master"
        THEN IF on_branch(corpus, v.pick, "master") # None
             THEN [v1 EXCEPT !.to_master = on_branch(corpus, v.pick, "master")]
             ELSE IF on_branch(corpus, k, "master") # None
             THEN [v1 EXCEPT !.to_master = on_branch(corpus, k, "master")]
             ELSE [v1 EXCEPT !.to_master = None]
        ELSE v1

\* Mutant of TabulateKnownSource: the lookup on k is tried before the one on
\* the pick.
TabulateKnownSource_KFirst(corpus, k, v) ==
    LET src == corpus[v.pick]
        v1 == [v EXCEPT !.from = src.baseRefName]
    IN  IF v1.from # "master"
        THEN IF on_branch(corpus, k, "master") # None
             THEN [v1 EXCEPT !.to_master = on_branch(corpus, k, "master")]
             ELSE IF on_branch(corpus, v.pick, "master") # None
             THEN [v1 EXCEPT !.to_master = on_branch(corpus, v.pick, "master")]
             ELSE [v1 EXCEPT !.to_master = None]
        ELSE v1

\* The body of tabulate_branch's loop for key k.  on_branch reads only
\* baseRefName and pick, which the loop never writes, so the iterations do not
\* affect one another.
TabulateKnownSource(corpus, k, v) ==
    LET src == corpus[v.pick]
        v1 == [v EXCEPT !.from = src.baseRefName]
    IN  IF v1.from # "master"
        THEN IF on_branch(corpus, v.pick, "master") # None
             THEN [v1 EXCEPT !.to_master = on_branch(corpus, v.pick, "master")]
             ELSE IF on_branch(corpus, k, "master") # None
             THEN [v1 EXCEPT !.to_master = on_branch(corpus, k, "master")]
             ELSE [v1 EXCEPT !.to_master = None]
        ELSE v1

\* Mutant of TabulateUnknownSource: the pick id is looked up first.
TabulateUnknownSource_PickLookup(corpus, k, v) ==
    [v EXCEPT !.from = "unknown",
              !.to_master = IF on_branch(corpus, v.pick, "master") # None
                            THEN on_branch(corpus, v.pick, "master")
                            ELSE on_branch(corpus, k, "master")]

TabulateUnknownSource(corpus, k, v) ==
    [v EXCEPT !.from = "unknown", !.to_master = on_branch(corpus, k, "master")]

TabulateNotPick(corpus, k, v) ==
    [v EXCEPT !.from = NoneStr, !.to_master = on_branch(corpus, k, "master")]

TabulateRecord(corpus, k) ==
    LET v == corpus[k]
    IN  IF Truthy(v.pick)
        THEN IF v.pick \in DOMAIN corpus
             THEN TabulateKnownSource(corpus, k, v)
             ELSE TabulateUnknownSource(corpus, k, v)
        ELSE TabulateNotPick(corpus, k, v)

TableKeys(corpus, b) == { k \in DOMAIN corpus : corpus[k].baseRefName = b }

tabulate_branch(corpus, b) ==
    [k \in DOMAIN corpus |->
        IF k \in TableKeys(corpus, b) THEN TabulateRecord(corpus, k) ELSE corpus[k]]

\* ------------------------------------------------------------------- report
\* A cell is a UrlCell (kind "url": the PR linked and its label, "<pr>" or
\* "<pr> on <on>") or a string (kind "str": text and the note annotation).
\* The token alphabet holds no character html.escape rewrites.
UrlCell(pr, labelpr, on) ==
    [kind |-> "url", pr |-> pr, labelpr |-> labelpr, on |-> on, text |-> <<>>, note |-> ""]

StrCell(text, note) ==
    [kind |-> "str", pr |-> EmptyStr, labelpr |-> EmptyStr, on |-> "", text |-> text, note |-> note]

\* render_pr_link returns its falsy argument unchanged.
render_pr_link(pr, labelpr, on) ==
    IF Truthy(pr) THEN UrlCell(pr, labelpr, on)
    ELSE [kind |-> "raw", pr |-> pr, labelpr |-> EmptyStr, on |-> "", text |-> <<>>, note |-> ""]

headers == <<"PR", "To Master", "From", "Title", "Merged", "Author">>

\* Records loaded from the database carry the fields GithubApi.get_commit asks
\* for, none of which is "notes": v.get("notes", "") is "".
RecordNotes(v) == ""

\* The values render_table reads from the record, before the overrides.
ReconciledFields(v) ==
    [pick |-> IF v.pick # None THEN v.pick ELSE EmptyStr,
     to_master |-> IF v.to_master = NoKey THEN EmptyStr ELSE v.to_master,
     source |-> v.from,
     notes |-> RecordNotes(v)]

\* Mutant of ApplyManual: the override of "from" is dropped.
ApplyManual_FromIgnored(k, f) ==
    IF k \in DOMAIN MANUAL
    THEN LET manual == MANUAL[k]
         IN  [pick |-> IF "pick" \in manual.has THEN manual.pick ELSE f.pick,
              to_master |-> IF "to_master" \in manual.has THEN manual.to_master ELSE f.to_master,
              source |-> f.source,
              notes |-> IF "notes" \in manual.has THEN manual.notes ELSE ""]
    ELSE f

\* if manual := MANUAL.get(k): every entry of MANUAL is a non-empty dict.
ApplyManual(k, f) ==
    IF k \in DOMAIN MANUAL
    THEN LET manual == MANUAL[k]
         IN  [pick |-> IF "pick" \in manual.has THEN manual.pick ELSE f.pick,
              to_master |-> IF "to_master" \in manual.has THEN manual.to_master ELSE f.to_master,
              source |-> IF "from" \in manual.has THEN manual.from ELSE f.source,
              notes |-> IF "notes" \in manual.has THEN manual.notes ELSE ""]
    ELSE f

RowFields(corpus, k) == ApplyManual(k, ReconciledFields(corpus[k]))

\* Mutant of IsPicked: a from of "master" alone does not count.
IsPicked_ToMasterOnly(f) == Truthy(f.to_master)

\* The branch of render_table that counts the row as picked.
IsPicked(f) == Truthy(f.to_master) \/ f.source = "master"

\* Mutant of RowColor: notes always give "yellow".
RowColor_NotesWin(f) ==
    IF f.notes # "" THEN "yellow"
    ELSE IF f.source = "N/A" THEN "n/a"
    ELSE IF Truthy(f.to_master) \/ f.source = "master" THEN "green" ELSE "none"

\* Mutant of RowColor: "N/A" is tested before the picked test overwrites it.
RowColor_GreenOverNA(f) ==
    LET c1 == IF f.source = "N/A" THEN "n/a" ELSE "none"
        c2 == IF Truthy(f.to_master) \/ f.source = "master" THEN "green" ELSE c1
    IN  IF f.notes # "" THEN (IF c2 # "none" THEN c2 ELSE "yellow") ELSE c2

RowColor(f) ==
    LET c1 == IF IsPicked(f) THEN "green" ELSE "none"
        c2 == IF f.source = "N/A" THEN "n/a" ELSE c1
    IN  IF f.notes # "" THEN (IF c2 # "none" THEN c2 ELSE "yellow") ELSE c2

RowColumns(v, k, f) ==
    << render_pr_link(k, k, ""),
       IF Truthy(f.to_master) THEN render_pr_link(f.to_master, f.to_master, "") ELSE StrCell(<<>>, ""),
       IF Truthy(f.pick) THEN render_pr_link(f.pick, f.pick, f.source) ELSE StrCell(<<>>, ""),
       StrCell(v.title, f.notes),
       StrCell(<<>>, ""),
       StrCell(<<>>, "") >>

RenderRow(corpus, k) ==
    [color |-> RowColor(RowFields(corpus, k)),
     columns |-> RowColumns(corpus[k], k, RowFields(corpus, k))]

\* Mutant of Sorted: the keys in descending order.
RECURSIVE Sorted_Descending(_)
Sorted_Descending(S) ==
    IF S = {} THEN <<>>
    ELSE LET m == CHOOSE x \in S : \A y \in S : x >= y
         IN  <<m>> \o Sorted_Descending(S \ {m})

\* sorted(table.keys())
RECURSIVE Sorted(_)
Sorted(S) ==
    IF S = {} THEN <<>>
    ELSE LET m == CHOOSE x \in S : \A y \in S : x <= y
         IN  <<m>> \o Sorted(S \ {m})

CountPicked(corpus, keys) == Cardinality({ k \in keys : IsPicked(RowFields(corpus, k)) })

CountUnpicked(corpus, keys) == Cardinality({ k \in keys : ~IsPicked(RowFields(corpus, k)) })

DescLine(count, total, text) == [count |-> count, total |-> total, text |-> text]

render_table(corpus, keys) ==
    [headers |-> headers,
     rows |-> [i \in 1..Cardinality(keys) |-> RenderRow(corpus, Sorted(keys)[i])],
     desc |-> << DescLine(CountPicked(corpus, keys), Cardinality(keys), "already exist on master"),
                 DescLine(CountUnpicked(corpus, keys), Cardinality(keys), "need cherry-picks") >>]

NoReport == [headers |-> <<>>, rows |-> <<>>, desc |-> <<>>]

\* No earlier pass over the corpus.
NoPass == [done |-> FALSE, prs |-> <<>>, report |-> NoReport]

\* The variables of a program while another one runs.
PicksIdle ==
    /\ prs = <<>> /\ branch = "release" /\ pc = "idle" /\ table = {}
    /\ report = NoReport /\ first = NoPass

DbIdle ==
    /\ gitlog = <<>> /\ pos = 0 /\ flagLimit = 0 /\ limit = 0
    /\ dbCommits = {} /\ dbPrs = {} /\ dbDesc = {}
    /\ queries = <<>> /\ known = {} /\ run = 0 /\ dpc = "idle"

MapIdle == symbols = <<>> /\ address = 0 /\ result = [kind |-> "none", name |-> 0, delta |-> 0]

\* ------------------------------------------------------------ initial states
\* A record as CommitDatabase.get_prs loads it: no derived field yet.
Record(k, base, title, body) ==
    [number |-> k, baseRefName |-> base, title |-> title, body |-> body,
     pick |-> NoKey, from |-> NoKeyStr, to_master |-> NoKey]

\* Texts of the corpus palette: <<title, body>>.
PaletteTexts ==
    { <<<<>>, <<>>>>, <<<<>>, <<CP>>>> }
    \cup { <<<<CP, OF, Hash(r)>>, <<>>>> : r \in RefIds }

\* Base branches tried for PR k.  A record that no text refers to is never a
\* pick source; based on neither "master" nor the target branch it is read by
\* no step, so only the PRs referred to are tried on "dev".
BranchesOf(k) == IF k \in RefIds THEN Branches ELSE Branches \ {"dev"}

Corpora(ids, texts) ==
    UNION { { c \in [S -> { Record(0, b, t[1], t[2]) : b \in Branches, t \in texts }] :
                \A k \in S : c[k].baseRefName \in BranchesOf(k) } :
            S \in { T \in SUBSET ids : Cardinality(T) <= MaxPRs } }

\* The key of a record in the prs table is its number.
Keyed(c) == [k \in DOMAIN c |-> [c[k] EXCEPT !.number = k]]

Init ==
    /\ prs \in { Keyed(c) : c \in Corpora(PRIds, PaletteTexts) }
    /\ branch \in TargetBranches
    /\ pc = "loaded"
    /\ table = {}
    /\ report = NoReport
    /\ first = NoPass
    /\ DbIdle
    /\ MapIdle

\* ------------------------------------------------------------------ actions
IndexCherrypicks ==
    /\ pc = "loaded"
    /\ prs' = index_cherrypicks(prs)
    /\ pc' = "indexed"
    /\ UNCHANGED <<branch, table, report, first>>
    /\ UNCHANGED <<dbvars, mapvars>>

TabulateBranch ==
    /\ pc = "indexed"
    /\ prs' = tabulate_branch(prs, branch)
    /\ table' = TableKeys(prs, branch)
    /\ pc' = "tabulated"
    /\ UNCHANGED <<branch, report, first>>
    /\ UNCHANGED <<dbvars, mapvars>>

\* Mutant of RenderTable: the overridden from is stored in the record.
RenderTable_WritesBack ==
    /\ pc = "tabulated"
    /\ report' = render_table(prs, table)
    /\ prs' = [k \in DOMAIN prs |->
                  IF k \in table THEN [prs[k] EXCEPT !.from = RowFields(prs, k).source]
                  ELSE prs[k]]
    /\ pc' = "rendered"
    /\ UNCHANGED <<branch, table, first>>
    /\ UNCHANGED <<dbvars, mapvars>>

RenderTable ==
    /\ pc = "tabulated"
    /\ report' = render_table(prs, table)
    /\ pc' = "rendered"
    /\ UNCHANGED <<prs, branch, table, first>>
    /\ UNCHANGED <<dbvars, mapvars>>

Next == IndexCherrypicks \/ TabulateBranch \/ RenderTable

Spec == Init /\ [][Next]_vars

\* ------------------------------------------------------------- second pass
\* index_cherrypicks, tabulate_branch and render_table called again on the
\* corpus the first pass annotated: the records keep their derived fields,
\* and what the first pass gave is kept in first for comparison.
SecondPass ==
    /\ pc = "rendered"
    /\ ~first.done
    /\ first' = [done |-> TRUE, prs |-> prs, report |-> report]
    /\ pc' = "loaded"
    /\ UNCHANGED <<prs, branch, table, report>>
    /\ UNCHANGED <<dbvars, mapvars>>

NextTwice == IndexCherrypicks \/ TabulateBranch \/ RenderTable \/ SecondPass

SpecTwice == Init /\ [][NextTwice]_vars

\* ---------------------------------------------------- text-inference inputs
\* A corpus of one record whose title and body are any token sequences within
\* the length bounds; the numbers referred to are one per reference form.
TextTokens == {CP, OF, BP, Hash(24838), Url(25195)}

Texts(n) == UNION { [1..m -> TextTokens] : m \in 0..n }

InitText ==
    /\ prs \in { (25018 :> Record(25018, b, t, d)) :
                    b \in TargetBranches, t \in Texts(MaxTitleLen), d \in Texts(MaxBodyLen) }
    /\ branch \in TargetBranches
    /\ pc = "loaded"
    /\ table = {}
    /\ report = NoReport
    /\ first = NoPass
    /\ DbIdle
    /\ MapIdle

SpecText == InitText /\ [][Next]_vars

\* ================================================================ commitdb.py
\* Commit ids of the repository.  `git log --oneline` gives each commit with
\* its subject line, so the desc of a commit is the same in every log and a
\* row (id, desc) of commits_desc is identified by the commit id.
Commits == 1..MaxCommits

\* gitlog(): the commits of a branch, each once.
Logs ==
    { l \in UNION { [1..n -> Commits] : n \in 0..MaxCommits } :
        \A i, j \in 1..Len(l) : i # j => l[i] # l[j] }

\* Values of --limit (type=int); a negative value behaves like 0 below.
Limits == 0..MaxLimit

\* What gh.get_commit(c) may answer: the merged PRs found for the commit, none,
\* one or two.
ApiAnswers(c) == { {}, {100 + c}, {100 + c, 200} }

\* check_git_commit(c) is not None.
CheckGitCommit(tbl, c) == \E r \in tbl : r[1] = c

\* A database written before commits_desc existed (check_picks.py still
\* creates the schema without it): commits and prs rows, no commits_desc rows.
LegacyDbs == { { <<c, 100 + c>> : c \in S } : S \in SUBSET Commits }

InitDb ==
    /\ dbCommits \in LegacyDbs
    /\ dbPrs = { r[2] : r \in dbCommits }
    /\ dbDesc = {}
    /\ gitlog = <<>> /\ pos = 0 /\ flagLimit = 0 /\ limit = 0
    /\ queries = <<>> /\ known = {} /\ run = 0 /\ dpc = "idle"
    /\ PicksIdle
    /\ MapIdle

\* main: build_db(gh, db, branch, args.stop, args.limit) for a branch.  The
\* for loop over an empty log ends at once.
StartBuild ==
    /\ dpc \in {"idle", "done"}
    /\ run < MaxRuns
    /\ run' = run + 1
    /\ gitlog' \in Logs
    /\ flagLimit' \in Limits
    /\ limit' = flagLimit'
    /\ pos' = 1
    /\ queries' = <<>>
    /\ known' = dbCommits
    /\ dpc' = IF gitlog' = <<>> THEN "done" ELSE "running"
    /\ UNCHANGED <<dbCommits, dbPrs, dbDesc>>
    /\ UNCHANGED <<picksvars, mapvars>>

\* Where the loop stands after the iteration at pos.
LoopNext(stop) ==
    /\ pos' = pos + 1
    /\ dpc' = IF stop \/ pos + 1 > Len(gitlog) THEN "done" ELSE "running"

\* One iteration of build_db's loop, for c = gitlog[pos].
\* insert_git_commit_desc is a plain INSERT into a table with UNIQUE(id, desc):
\* it raises sqlite3.IntegrityError when the row is there, and nothing catches
\* it.  The connection is in autocommit mode, so earlier rows stay.
BuildStep ==
    /\ dpc = "running"
    /\ LET c == gitlog[pos]
       IN  IF c \in dbDesc
           THEN /\ dpc' = "error"
                /\ UNCHANGED <<pos, limit, dbCommits, dbPrs, dbDesc, queries>>
           ELSE /\ dbDesc' = dbDesc \cup {c}
                /\ IF CheckGitCommit(dbCommits, c)
                   THEN /\ LoopNext(FALSE)
                        /\ UNCHANGED <<limit, dbCommits, dbPrs, queries>>
                   ELSE \E data \in ApiAnswers(c) :
                        /\ queries' = Append(queries, c)
                        /\ dbCommits' = dbCommits \cup { <<c, n>> : n \in data }
                        /\ dbPrs' = dbPrs \cup data
                        /\ limit' = limit - 1
                        /\ LoopNext(limit - 1 = 0)
    /\ UNCHANGED <<gitlog, flagLimit, known, run>>
    /\ UNCHANGED <<picksvars, mapvars>>

NextDb == StartBuild \/ BuildStep

SpecDb == InitDb /\ [][NextDb]_vars


\* ============================================================ Mapfile.address
\* A symbol is (addr, size, name); names are numbered.  Addresses are small,
\* or small beyond the distance at which address() stops naming a symbol.
FarDelta == 65536

SymAddrs == (1..MaxAddr) \cup {FarDelta + MaxAddr + 1}

Addresses == (0..(MaxAddr + MaxSize)) \cup { FarDelta + a : a \in 1..(MaxAddr + MaxSize + 1) }

Sym(addr, size, name) == [addr |-> addr, size |-> size, name |-> name]

\* The order of self.symbols.sort() on the tuples.
SymLess(a, b) ==
    \/ a.addr < b.addr
    \/ a.addr = b.addr /\ a.size < b.size
    \/ a.addr = b.addr /\ a.size = b.size /\ a.name < b.name

\* Mapfile.symbols after parse(): sorted, one symbol per name.
SymbolLists ==
    { l \in UNION { [1..n -> { Sym(a, z, m) : a \in SymAddrs, z \in 0..MaxSize, m \in 1..MaxSyms }] :
                    n \in 0..MaxSyms } :
        \A i \in 1..(Len(l) - 1) : SymLess(l[i], l[i + 1]) /\ l[i].name # l[i + 1].name
                                   /\ \A j \in 1..Len(l) : j # i => l[j].name # l[i].name }

Answer(kind, name, delta) == [kind |-> kind, name |-> name, delta |-> delta]

\* The first i > 0 of the loop with address < symbols[i].addr (0: none).  The
\* loop leaves at that i, by return or by break.
FirstAbove(syms, a) ==
    IF \E i \in 2..Len(syms) : a < syms[i].addr
    THEN CHOOSE i \in 2..Len(syms) :
             /\ a < syms[i].addr
             /\ \A j \in 2..(i - 1) : ~(a < syms[j].addr)
    ELSE 0

\* verilator/tracer.py, Mapfile.address.
TracerAddress(syms, a) ==
    LET i == FirstAbove(syms, a)
    IN  IF i = 0 THEN Answer("raw", 0, a)
        ELSE LET prev == syms[i - 1]
                 delta == a - prev.addr
             IN  IF delta < prev.size THEN Answer("plus", prev.name, delta)
                 ELSE IF delta < FarDelta THEN Answer("query", prev.name, delta)
                 ELSE Answer("raw", 0, a)

\* mapfile/mapfile.py, Mapfile.address: its symbols are 4-tuples (addr, size,
\* section, name), and `addr, size, name = self.symbols[i - 1]` raises
\* ValueError.
MapfileAddress(syms, a) ==
    IF FirstAbove(syms, a) = 0 THEN Answer("raw", 0, a) ELSE Answer("ValueError", 0, 0)

InitMap ==
    /\ symbols \in SymbolLists
    /\ address \in Addresses
    /\ result = Answer("none", 0, 0)
    /\ PicksIdle
    /\ DbIdle

AddressTracer ==
    /\ result.kind = "none"
    /\ result' = TracerAddress(symbols, address)
    /\ UNCHANGED <<symbols, address>>
    /\ UNCHANGED <<picksvars, dbvars>>

AddressMapfile ==
    /\ result.kind = "none"
    /\ result' = MapfileAddress(symbols, address)
    /\ UNCHANGED <<symbols, address>>
    /\ UNCHANGED <<picksvars, dbvars>>

NextMap == AddressTracer \/ AddressMapfile

SpecMap == InitMap /\ [][NextMap]_vars


\* ==================================================================== claims
Indexed == pc \in {"indexed", "tabulated", "rendered"}

Tabulated == pc \in {"tabulated", "rendered"}

Rendered == pc = "rendered"

\* The master-based records whose pick is x, and the one among them that has
\* no competitor.
MasterPicks(x) == { m \in DOMAIN prs : prs[m].baseRefName = "master" /\ prs[m].pick = x }

UniqueMasterPick(x) == { m \in MasterPicks(x) : \A m2 \in MasterPicks(x) : m2 = m }

\* Rows of the report and the PR each is about.
RowIndices == 1..Len(report.rows)

RowKey(i) == report.rows[i].columns[1].pr

\* The values a row is to be built from: the override where the entry has the
\* field, the reconciled value of the corpus record otherwise.
HasManual(k, field) == k \in DOMAIN MANUAL /\ field \in MANUAL[k].has

EffPick(k) == IF HasManual(k, "pick") THEN MANUAL[k].pick ELSE prs[k].pick

EffToMaster(k) == IF HasManual(k, "to_master") THEN MANUAL[k].to_master ELSE prs[k].to_master

EffFrom(k) == IF HasManual(k, "from") THEN MANUAL[k].from ELSE prs[k].from

EffNotes(k) == IF HasManual(k, "notes") THEN MANUAL[k].notes ELSE ""

Resolved(k) == Truthy(EffToMaster(k)) \/ EffFrom(k) = "master"

EmptyCell == StrCell(<<>>, "")

\* --------------------------------------------------------------------- C1
\* C1: after tabulate_branch, every record k on the target branch whose pick
\* is a nonzero id p present in the corpus has from = the base branch of p;
\* and when that branch is not "master", to_master is the unique master-based
\* record picking p if there is one, else the unique master-based record
\* picking k if there is one, else None.
C1_KnownSource ==
    Tabulated =>
        \A k \in table :
            LET p == prs[k].pick
            IN  (p > 0 /\ p \in DOMAIN prs) =>
                    /\ prs[k].from = prs[p].baseRefName
                    /\ prs[k].from # "master" =>
                        /\ UniqueMasterPick(p) # {} => prs[k].to_master \in UniqueMasterPick(p)
                        /\ (UniqueMasterPick(p) = {} /\ UniqueMasterPick(k) # {}) =>
                               prs[k].to_master \in UniqueMasterPick(k)
                        /\ (UniqueMasterPick(p) = {} /\ UniqueMasterPick(k) = {}) =>
                               prs[k].to_master = None

\* Both lookups succeed with different answers and the one on p is stored.
C1_Witness ==
    /\ Tabulated
    /\ \E k \in table :
        LET p == prs[k].pick
        IN  /\ p > 0 /\ p \in DOMAIN prs
            /\ prs[p].baseRefName = "dev"
            /\ UniqueMasterPick(p) # {}
            /\ UniqueMasterPick(k) # {}
            /\ UniqueMasterPick(k) # UniqueMasterPick(p)
            /\ prs[k].to_master \in UniqueMasterPick(p)

\* --------------------------------------------------------------------- C2
\* C2: after index_cherrypicks, the pick of every record is decided by the
\* first rule that matches, in the order body cherry-pick reference, title
\* cherry-pick reference, title backport reference, body backport reference
\* (pick = the number captured), bare cherry-pick mention in the body
\* (pick = 0), and is None otherwise, a bare mention in the title included.
C2_Priority ==
    Indexed =>
        \A k \in DOMAIN prs :
            LET v == prs[k]
                bodyPick == PickSearch(v.body)
                titlePick == PickSearch(v.title)
                titleBackport == BackportSearch(v.title)
                bodyBackport == BackportSearch(v.body)
            IN  /\ bodyPick # None => v.pick = bodyPick
                /\ (bodyPick = None /\ titlePick # None) => v.pick = titlePick
                /\ (bodyPick = None /\ titlePick = None /\ titleBackport # None) =>
                       v.pick = titleBackport
                /\ (bodyPick = None /\ titlePick = None /\ titleBackport = None
                        /\ bodyBackport # None) => v.pick = bodyBackport
                /\ (bodyPick = None /\ titlePick = None /\ titleBackport = None
                        /\ bodyBackport = None) =>
                       v.pick = IF \E i \in 1..Len(v.body) : v.body[i] = CP THEN 0 ELSE None

\* Two rules match with different numbers and the higher one is stored.
C2_Witness ==
    /\ Indexed
    /\ \E k \in DOMAIN prs :
        /\ PickSearch(prs[k].body) # None
        /\ BackportSearch(prs[k].title) # None
        /\ BackportSearch(prs[k].title) # PickSearch(prs[k].body)
        /\ prs[k].pick = PickSearch(prs[k].body)

\* --------------------------------------------------------------------- C3
\* C3: on_branch answers with a record only when exactly one record based on
\* the branch has the pick asked for, and with no match when several do; so a
\* to_master stored by tabulate_branch names a master-based record that no
\* other master-based record competes with for the same pick.
C3_NoArbitraryWinner ==
    Tabulated =>
        /\ \A x \in PRIds, b \in Branches :
            LET cands == { m \in DOMAIN prs : prs[m].baseRefName = b /\ prs[m].pick = x }
            IN  /\ Cardinality(cands) >= 2 => on_branch(prs, x, b) = None
                /\ on_branch(prs, x, b) # None => cands = {on_branch(prs, x, b)}
        /\ \A k \in table :
            LET m == prs[k].to_master
            IN  Truthy(m) =>
                    /\ m \in DOMAIN prs
                    /\ prs[m].baseRefName = "master"
                    /\ \A m2 \in DOMAIN prs \ {m} :
                           prs[m2].baseRefName = "master" => prs[m2].pick # prs[m].pick

\* Two master records pick the source of k, and k gets no to_master.
C3_Witness ==
    /\ Tabulated
    /\ \E k \in table :
        LET p == prs[k].pick
        IN  /\ p > 0 /\ p \in DOMAIN prs
            /\ prs[p].baseRefName # "master"
            /\ Cardinality(MasterPicks(p)) >= 2
            /\ prs[k].to_master = None

\* --------------------------------------------------------------------- C4
\* C4: every row of the report is built from the override value of each of
\* pick, from, to_master and notes that the PR's override entry has, and from
\* the reconciled value of every field it has not (all of them for a PR
\* without an entry): the To Master cell, the From cell, the note annotation
\* and the colour are those of the effective values.
C4_ColourOf(k) ==
    CASE EffFrom(k) = "N/A" -> "n/a"
      [] EffFrom(k) # "N/A" /\ Resolved(k) -> "green"
      [] OTHER -> IF EffNotes(k) # "" THEN "yellow" ELSE "none"

C4_OverridePrecedence ==
    Rendered =>
        \A i \in RowIndices :
            LET k == RowKey(i)
                row == report.rows[i]
            IN  /\ k \in table
                /\ row.columns[2] =
                       IF Truthy(EffToMaster(k))
                       THEN UrlCell(EffToMaster(k), EffToMaster(k), "") ELSE EmptyCell
                /\ row.columns[3] =
                       IF Truthy(EffPick(k))
                       THEN UrlCell(EffPick(k), EffPick(k), EffFrom(k)) ELSE EmptyCell
                /\ row.columns[4].note = EffNotes(k)
                /\ row.color = C4_ColourOf(k)

\* One report holds a row whose pick and from are overridden against the
\* inference, a row whose to_master is overridden, and a row of a PR without
\* an override entry that shows its reconciled pick.
C4_Witness ==
    /\ Rendered
    /\ \E i, j, h \in RowIndices :
        /\ RowKey(i) = 24834
        /\ prs[24834].pick # 24345 /\ Truthy(prs[24834].pick)
        /\ prs[24834].from # "master"
        /\ report.rows[i].columns[3] = UrlCell(24345, 24345, "master")
        /\ report.rows[i].color = "green"
        /\ RowKey(j) = 24872
        /\ prs[24872].to_master = None
        /\ report.rows[j].columns[2] = UrlCell(24838, 24838, "")
        /\ RowKey(h) = 24838
        /\ Truthy(prs[24838].pick)
        /\ report.rows[h].columns[3] = UrlCell(prs[24838].pick, prs[24838].pick, prs[24838].from)

\* --------------------------------------------------------------------- C5
\* C5 as stated: a row whose notes are non-empty after the overrides is
\* tagged "yellow" whatever else holds of it, and its title cell carries the
\* note.
C5_NotesAlwaysYellow ==
    Rendered =>
        \A i \in RowIndices :
            EffNotes(RowKey(i)) # "" =>
                /\ report.rows[i].color = "yellow"
                /\ report.rows[i].columns[4].note = EffNotes(RowKey(i))

\* C5 amended: a row whose notes are non-empty after the overrides carries the
\* note in its title cell, and is tagged "yellow" exactly when it is neither
\* not-applicable (from = "N/A") nor resolved (to_master set or from =
\* "master"); a not-applicable or resolved row keeps that tag.
C5_NotesYellowUnlessTagged ==
    Rendered =>
        \A i \in RowIndices :
            LET k == RowKey(i)
            IN  EffNotes(k) # "" =>
                    /\ report.rows[i].columns[4].note = EffNotes(k)
                    /\ (EffFrom(k) # "N/A" /\ ~Resolved(k)) => report.rows[i].color = "yellow"
                    /\ (EffFrom(k) # "N/A" /\ Resolved(k)) => report.rows[i].color = "green"
                    /\ EffFrom(k) = "N/A" => report.rows[i].color = "n/a"

\* A report with a noted row that is resolved and stays green.
C5_Witness ==
    /\ Rendered
    /\ \E i \in RowIndices :
        /\ EffNotes(RowKey(i)) = "Investigate"
        /\ Resolved(RowKey(i))
        /\ report.rows[i].color = "green"
        /\ report.rows[i].columns[4].note = "Investigate"

\* --------------------------------------------------------------------- C6
\* C6: a row with empty notes is tagged not-applicable if its effective from
\* is "N/A" (even with to_master set), otherwise resolved if its effective
\* to_master is set or its from is "master", otherwise it has no tag; every
\* row carries one tag of none, resolved, not-applicable, needs-attention.
C6_ColourRules ==
    Rendered =>
        \A i \in RowIndices :
            LET k == RowKey(i)
                c == report.rows[i].color
            IN  /\ c \in {"none", "green", "n/a", "yellow"}
                /\ EffNotes(k) = "" =>
                    /\ EffFrom(k) = "N/A" => c = "n/a"
                    /\ (EffFrom(k) # "N/A" /\ (Truthy(EffToMaster(k)) \/ EffFrom(k) = "master"))
                           => c = "green"
                    /\ (EffFrom(k) # "N/A" /\ ~Truthy(EffToMaster(k)) /\ EffFrom(k) # "master")
                           => c = "none"

\* A row without notes whose from is "N/A" and whose to_master is set.
C6_Witness ==
    /\ Rendered
    /\ \E i \in RowIndices :
        /\ EffNotes(RowKey(i)) = ""
        /\ EffFrom(RowKey(i)) = "N/A"
        /\ Truthy(EffToMaster(RowKey(i)))
        /\ report.rows[i].color = "n/a"

\* --------------------------------------------------------------------- C7
\* C7 as stated: picked counts the rows that are not "N/A" and resolved,
\* unpicked the rows that are not "N/A" and not resolved; a row whose from is
\* "N/A" is counted by neither.
C7_CountersSkipNA ==
    Rendered =>
        /\ report.desc[1].count =
               Cardinality({ k \in table : EffFrom(k) # "N/A" /\ Resolved(k) })
        /\ report.desc[2].count =
               Cardinality({ k \in table : EffFrom(k) # "N/A" /\ ~Resolved(k) })

\* --------------------------------------------------------------------- C8
\* C8 as stated: when every record on the target branch has from = "master"
\* after reconciliation, picked = total and unpicked = 0.
C8_AllFromMaster ==
    Rendered =>
        ((\A k \in table : prs[k].from = "master") =>
            /\ report.desc[1].count = report.desc[1].total
            /\ report.desc[1].total = Cardinality(table)
            /\ report.desc[2].count = 0)

\* C8 amended: when every record on the target branch has from = "master"
\* after reconciliation and no override entry replaces that from by another
\* value, picked = total and unpicked = 0.
C8_AllFromMasterKept ==
    Rendered =>
        ((\A k \in table :
              /\ prs[k].from = "master"
              /\ HasManual(k, "from") => MANUAL[k].from = "master") =>
            /\ report.desc[1].count = report.desc[1].total
            /\ report.desc[1].total = Cardinality(table)
            /\ report.desc[2].count = 0)

\* Two or more rows, all picked from master, none with to_master set by the
\* reconciler, all counted as picked.
C8_Witness ==
    /\ Rendered
    /\ Cardinality(table) >= 2
    /\ \A k \in table :
        /\ prs[k].from = "master"
        /\ prs[k].to_master = NoKey
        /\ HasManual(k, "from") => MANUAL[k].from = "master"
    /\ report.desc[1].count = Cardinality(table)
    /\ report.desc[2].count = 0

\* --------------------------------------------------------------------- C9
\* C9: after tabulate_branch, a record k on the target branch whose pick is a
\* nonzero id absent from the corpus has from = "unknown", one whose pick is 0
\* has from = None; in both cases to_master is the unique master-based record
\* picking k, or None when there is none, whatever picks the pick id itself.
C9_UnresolvedSource ==
    Tabulated =>
        \A k \in table :
            LET p == prs[k].pick
            IN  /\ (p > 0 /\ p \notin DOMAIN prs) => prs[k].from = "unknown"
                /\ p = 0 => prs[k].from = NoneStr
                /\ (p = 0 \/ (p > 0 /\ p \notin DOMAIN prs)) =>
                    /\ UniqueMasterPick(k) # {} => prs[k].to_master \in UniqueMasterPick(k)
                    /\ UniqueMasterPick(k) = {} => prs[k].to_master = None

\* A record whose unknown source is picked to master by exactly one record,
\* which is not taken, beside a record with pick 0.
C9_Witness ==
    /\ Tabulated
    /\ \E k, z \in table :
        /\ prs[k].pick > 0 /\ prs[k].pick \notin DOMAIN prs
        /\ UniqueMasterPick(prs[k].pick) # {}
        /\ UniqueMasterPick(k) = {}
        /\ prs[k].from = "unknown" /\ prs[k].to_master = None
        /\ prs[z].pick = 0 /\ prs[z].from = NoneStr

\* -------------------------------------------------------------------- C10
\* C10 as stated: once index_cherrypicks has returned, no step changes the
\* corpus.
C10_CorpusFrozenAfterIndex == [][Indexed => prs' = prs]_vars

\* C10 amended: once index_cherrypicks has returned, tabulate_branch changes
\* only the from and to_master of the records based on the target branch, and
\* render_table, overrides included, changes no corpus record.
C10_CorpusFrame ==
    [][ /\ pc = "tabulated" => prs' = prs
        /\ pc = "indexed" =>
            /\ DOMAIN prs' = DOMAIN prs
            /\ \A k \in DOMAIN prs :
                /\ prs'[k] = [prs[k] EXCEPT !.from = prs'[k].from, !.to_master = prs'[k].to_master]
                /\ prs[k].baseRefName # branch => prs'[k] = prs[k] ]_vars

\* A rendered report whose row shows an overridden from while the corpus
\* record keeps the reconciled one.
C10_Witness ==
    /\ Rendered
    /\ \E i \in RowIndices :
        /\ RowKey(i) = 24834
        /\ report.rows[i].columns[3] = UrlCell(24345, 24345, "master")
        /\ prs[24834].from = "dev"
        /\ Truthy(prs[24834].pick) /\ prs[24834].pick # 24345

\* -------------------------------------------------------------------- C11
\* C11: the report has exactly one row per record based on the target branch,
\* in strictly ascending order of PR number, each row with as many cells as
\* there are headers, which is 6; a target branch without records gives no
\* rows and the summary lines "0 of 0 already exist on master" and "0 of 0
\* need cherry-picks".
C11_RowsOfBranch ==
    Rendered =>
        LET based == { k \in DOMAIN prs : prs[k].baseRefName = branch }
        IN  /\ Len(report.rows) = Cardinality(based)
            /\ { RowKey(i) : i \in RowIndices } = based
            /\ \A i, j \in RowIndices : i < j => RowKey(i) < RowKey(j)
            /\ Len(report.headers) = 6
            /\ \A i \in RowIndices : Len(report.rows[i].columns) = Len(report.headers)
            /\ Len(report.desc) = 2
            /\ based = {} =>
                /\ report.rows = <<>>
                /\ report.desc[1] = [count |-> 0, total |-> 0, text |-> "already exist on master"]
                /\ report.desc[2] = [count |-> 0, total |-> 0, text |-> "need cherry-picks"]

\* A report of three rows or more beside records of other branches.
C11_Witness ==
    /\ Rendered
    /\ Len(report.rows) >= 3
    /\ Cardinality(DOMAIN prs) > Len(report.rows)
    /\ \A i \in RowIndices : Len(report.rows[i].columns) = 6
    /\ \A i \in RowIndices : i > 1 => RowKey(i - 1) < RowKey(i)

\* -------------------------------------------------------------------- C12
\* C12: a second pass of index_cherrypicks and tabulate_branch over the corpus
\* annotated by the first gives every record the pick, from and to_master the
\* first pass gave it, and render_table then gives the same report.
C12_SecondPassSame ==
    first.done =>
        /\ Indexed => \A k \in DOMAIN prs : prs[k].pick = first.prs[k].pick
        /\ Tabulated =>
            /\ DOMAIN prs = DOMAIN first.prs
            /\ \A k \in DOMAIN prs :
                /\ prs[k].from = first.prs[k].from
                /\ prs[k].to_master = first.prs[k].to_master
        /\ Rendered => report = first.report

\* A second report equal to the first, over records that were looked up on
\* master, picked from master (no to_master key) and picked from another
\* record of the target branch.
C12_Witness ==
    /\ first.done
    /\ Rendered
    /\ report = first.report
    /\ \E k, h, g \in table :
        /\ Truthy(prs[k].to_master)
        /\ prs[h].from = "master" /\ prs[h].to_master = NoKey
        /\ Truthy(prs[g].pick) /\ prs[g].pick \in table /\ prs[g].from = branch

\* -------------------------------------------------------------------- C13
\* C13 as stated: one build_db call passes at most --limit commits to
\* get_commit, and none that the commits table already knew.
C13_QueriesWithinLimit ==
    dpc # "idle" =>
        /\ Len(queries) <= flagLimit
        /\ \A i \in 1..Len(queries) : ~CheckGitCommit(known, queries[i])

\* -------------------------------------------------------------------- C14
\* C14 as stated: a later build_db over a log whose commits are all in the
\* commits table ends without error, queries none of them and leaves the
\* commits and prs tables as they were.
C14_RerunCompletes ==
    (run >= 2 /\ dpc # "running" /\ \A i \in 1..Len(gitlog) : CheckGitCommit(known, gitlog[i])) =>
        /\ dpc = "done"
        /\ queries = <<>>
        /\ dbCommits = known

\* -------------------------------------------------------------------- C15
\* C15 as stated: Mapfile.address answers name+delta only for a symbol that
\* contains the address (addr <= address < addr + size, so delta >= 0), and
\* answers it for every address that some symbol contains.
C15_NameDeltaIffContained ==
    result.kind # "none" =>
        /\ result.kind = "plus" =>
            /\ result.delta >= 0
            /\ \E i \in 1..Len(symbols) :
                /\ symbols[i].name = result.name
                /\ result.delta = address - symbols[i].addr
                /\ symbols[i].addr <= address
                /\ address < symbols[i].addr + symbols[i].size
        /\ (\E i \in 1..Len(symbols) :
                symbols[i].addr <= address /\ address < symbols[i].addr + symbols[i].size)
            => result.kind = "plus"

====
